---- MODULE Spec2Model ----
\* A model of langstream_grpc/grpc_service.py: the AgentService bridge
\* (Source read / Processor process / Sink write streams), its record
\* marshaller and value codec, and the outbound schema registry and inbound
\* schema cache shared by all streams of one AgentService instance.
\*
\* Every coroutine runs on one asyncio event loop, so an action is the code
\* executed between two suspension points (an await, or a yield of the
\* async generator that hands one message to the transport).
EXTENDS Integers, Sequences, FiniteSets, TLC

\* ------------------------------------------------------------------ bounds
\* agent.read calls per read stream
MaxReads == 2
\* SourceRequest messages per read stream
MaxAcks == 2
\* inbound records handled per Processor stream
MaxProcRecords == 2
\* inbound records handled per Sink stream
MaxSinkRecords == 2

\* ------------------------------------------------------------- exceptions
\* A Python exception: its class and its message; str(e) is the message
\* (for a KeyError, the repr of the missing key).
Exc(cls, msg) == [cls |-> cls, msg |-> msg]
NoExc == Exc("", "")
str(e) == e.msg

\* The exceptions the agent's own code raises here: one with a message, one
\* without (raise Exception()).
AgentExceptions == {Exc("RuntimeError", "boom"), Exc("Exception", "")}

\* ----------------------------------------------------------- domain values
\* A Python value handed to or returned by the agent: kind is its Python
\* type, schema the Avro schema (dict) of an AvroValue, payload its content.
DomValue(kind, schema, payload) == [kind |-> kind, schema |-> schema, payload |-> payload]
PyNone == DomValue("none", "", "")
PyStr(x) == DomValue("str", "", x)
PyObject == DomValue("object", "", "obj")
AvroValue(schema, value) == DomValue("avro", schema, value)

\* Avro schemas as the agent builds them: AdocSchema is ASchema with a doc
\* attribute, which the parsing canonical form strips.
ASchema == "A"
AdocSchema == "Adoc"
BSchema == "B"
InvalidSchema == "invalid"

\* fastavro.schema.to_parsing_canonical_form
to_parsing_canonical_form(schema) == IF schema = AdocSchema THEN ASchema ELSE schema

\* fastavro.parse_schema(json.loads(text)) of a schema announcement: raises
\* on a definition that is no Avro schema.
ParseRaises(text) == text = InvalidSchema
parse_schema(text) == text

\* fastavro.schemaless_writer: a datum that does not match the schema raises;
\* otherwise the Avro binary encoding of the datum.
AvroWritable(schema, payload) ==
    \/ to_parsing_canonical_form(schema) = ASchema /\ payload = "a1"
    \/ to_parsing_canonical_form(schema) = BSchema /\ payload = "b1"
schemaless_writer(schema, payload) ==
    CASE payload = "a1" -> "bin_a1"
      [] payload = "b1" -> "bin_b1"
      [] OTHER -> "bin_other"

\* fastavro.schemaless_reader: bytes written under another schema do not
\* decode.
AvroReadable(schema, bytes) ==
    \/ to_parsing_canonical_form(schema) = ASchema /\ bytes = "bin_a1"
    \/ to_parsing_canonical_form(schema) = BSchema /\ bytes = "bin_b1"
schemaless_reader(bytes, schema) ==
    CASE bytes = "bin_a1" -> "a1"
      [] bytes = "bin_b1" -> "b1"
      [] OTHER -> "other"

\* json.dumps / json.loads on the JSON documents used here: "json_d1" is
\* the text json.dumps writes for the document d1 (", " and ": " as
\* separators), "json_d1_compact" the same document written without
\* spaces, as other JSON writers do; json.loads reads both.
json_dumps(payload) ==
    CASE payload = "d1" -> "json_d1"
      [] OTHER -> "json_other"
JsonParsable(text) == text \in {"json_d1", "json_d1_compact"}
json_loads(text) ==
    CASE text = "json_d1" -> "d1"
      [] text = "json_d1_compact" -> "d1"
      [] OTHER -> "other"

\* ------------------------------------------------------------- wire values
\* agent_pb2.Value: which member of type_oneof is set, its content, and the
\* schema_id field. An unset Value (and Python None) is GrpcNone.
GrpcValue(variant, payload, id) == [variant |-> variant, payload |-> payload, schema_id |-> id]
GrpcNone == GrpcValue("unset", "", 0)

\* agent_pb2.Schema: Optional[Schema] None is NoSchema.
Schema(id, value) == [schema_id |-> id, value |-> value]
NoSchema == Schema(0, "")

\* The registry self.schemas is a function from canonical schema strings to
\* ids; this is the function extended or overwritten at one key.
Put(map, k, v) == [x \in (DOMAIN map) \cup {k} |-> IF x = k THEN v ELSE map[x]]
EmptyMap == [x \in {} |-> 0]

\* AgentService.to_grpc_value, on the registry state (schema_id, schemas):
\* the (grpc_schema, grpc_value) returned or the exception raised, and the
\* registry state it leaves behind.
ValueResult(raised, error, schema, value, reg_id, reg) ==
    [raised |-> raised, error |-> error, schema |-> schema, value |-> value,
     schema_id |-> reg_id, schemas |-> reg]

\* The AvroValue branch (lines 250-264) once the canonical form is known:
\* an unseen schema takes the next id and is announced; the datum is
\* written and the wire value is given self.schema_id.
AvroToGrpc(value, schema_str, id, reg, unseen) ==
    IF AvroWritable(value.schema, value.payload)
    THEN ValueResult(FALSE, NoExc,
                     IF unseen THEN Schema(id, schema_str) ELSE NoSchema,
                     GrpcValue("avro_value",
                               schemaless_writer(value.schema, value.payload), id),
                     id, reg)
    ELSE ValueResult(TRUE, Exc("ValueError", "datum does not match schema"),
                     NoSchema, GrpcNone, id, reg)

\* RegisterAvro giving an unseen schema the current id, not the next one.
RegisterAvroWithoutIncrement(value, schema_str, schema_id, schemas) ==
    IF schema_str \notin DOMAIN schemas
    THEN AvroToGrpc(value, schema_str, schema_id,
                    Put(schemas, schema_str, schema_id), TRUE)
    ELSE AvroToGrpc(value, schema_str, schema_id, schemas, FALSE)

\* Lines 251-254: the registry lookup of the canonical form, and the
\* registration of an unseen schema under the next id.
RegisterAvro(value, schema_str, schema_id, schemas) ==
    IF schema_str \notin DOMAIN schemas
    THEN AvroToGrpc(value, schema_str, schema_id + 1,
                    Put(schemas, schema_str, schema_id + 1), TRUE)
    ELSE AvroToGrpc(value, schema_str, schema_id, schemas, FALSE)

ScalarToGrpc(variant, value, schema_id, schemas) ==
    ValueResult(FALSE, NoExc, NoSchema, GrpcValue(variant, value.payload, 0),
                schema_id, schemas)

to_grpc_value(value, schema_id, schemas) ==
    CASE value.kind = "none" ->
            ValueResult(FALSE, NoExc, NoSchema, GrpcNone, schema_id, schemas)
      [] value.kind = "bytes" -> ScalarToGrpc("bytes_value", value, schema_id, schemas)
      [] value.kind = "str" -> ScalarToGrpc("string_value", value, schema_id, schemas)
      [] value.kind = "bool" -> ScalarToGrpc("boolean_value", value, schema_id, schemas)
      [] value.kind = "int" -> ScalarToGrpc("long_value", value, schema_id, schemas)
      [] value.kind = "float" -> ScalarToGrpc("double_value", value, schema_id, schemas)
      [] value.kind = "avro" ->
            RegisterAvro(value, to_parsing_canonical_form(value.schema), schema_id, schemas)
      [] value.kind = "json" ->
            ValueResult(FALSE, NoExc, NoSchema,
                        GrpcValue("json_value", json_dumps(value.payload), 0),
                        schema_id, schemas)
      [] OTHER ->
            ValueResult(TRUE, Exc("TypeError", "Got unsupported type"),
                        NoSchema, GrpcNone, schema_id, schemas)

\* ---------------------------------------------------------------- records
\* A domain record as the agent returns it: form is "record" for a Record
\* object, "tuple" for a (value, key, headers, origin, timestamp) tuple.
\* timestamp 0 stands for None, origin "" for None.
Header(name, value) == [name |-> name, value |-> value]
DomRecord(form, value, key, headers) ==
    [form |-> form, value |-> value, key |-> key, headers |-> headers,
     origin |-> "", timestamp |-> 0]
SimpleRecord(value, key, headers) == DomRecord("record", value, key, headers)

\* wrap_in_record: tuples, lists and dicts become SimpleRecords.
wrap_in_record(record) == [record EXCEPT !.form = "record"]

\* agent_pb2.Record
GrpcRecord(value, key, headers, origin, timestamp) ==
    [record_id |-> 0, value |-> value, key |-> key, headers |-> headers,
     origin |-> origin, timestamp |-> timestamp]
NoGrpcRecord == GrpcRecord(GrpcNone, GrpcNone, <<>>, "", 0)

RecordResult(raised, error, schemas, record, reg_id, reg) ==
    [raised |-> raised, error |-> error, schemas |-> schemas, record |-> record,
     schema_id |-> reg_id, reg |-> reg]

\* schemas.append(schema) if schema is not None
AppendSchema(schemas, schema) == IF schema # NoSchema THEN Append(schemas, schema) ELSE schemas

\* The header loop of to_grpc_record (lines 222-226) from header i on: the
\* announcements and wire headers collected, or the exception of the first
\* header that fails, with the registry state reached. r is what
\* to_grpc_value made of header i.
RECURSIVE HeadersToGrpc(_, _, _, _, _, _)
HeaderToGrpc(hs, i, schemas, headers, r) ==
    IF r.raised
    THEN [raised |-> TRUE, error |-> r.error, schemas |-> schemas,
          headers |-> headers, schema_id |-> r.schema_id, reg |-> r.schemas]
    ELSE HeadersToGrpc(hs, i + 1, AppendSchema(schemas, r.schema),
                       Append(headers, Header(hs[i].name, r.value)),
                       r.schema_id, r.schemas)
HeadersToGrpc(hs, i, schemas, headers, reg_id, reg) ==
    IF i > Len(hs)
    THEN [raised |-> FALSE, error |-> NoExc, schemas |-> schemas,
          headers |-> headers, schema_id |-> reg_id, reg |-> reg]
    ELSE HeaderToGrpc(hs, i, schemas, headers, to_grpc_value(hs[i].value, reg_id, reg))

\* AgentService.to_grpc_record: value, then key, then headers; the list of
\* announcements is returned only if all of them marshal. v, k and h are
\* what the value, the key and the headers marshalled to.
RecordOfHeaders(record, v, k, h) ==
    IF h.raised
    THEN RecordResult(TRUE, h.error, <<>>, NoGrpcRecord, h.schema_id, h.reg)
    ELSE RecordResult(FALSE, NoExc, h.schemas,
                      GrpcRecord(v.value, k.value, h.headers, record.origin, record.timestamp),
                      h.schema_id, h.reg)
RecordOfKey(record, v, k) ==
    IF k.raised
    THEN RecordResult(TRUE, k.error, <<>>, NoGrpcRecord, k.schema_id, k.schemas)
    ELSE RecordOfHeaders(record, v, k,
                         HeadersToGrpc(record.headers, 1,
                                       AppendSchema(AppendSchema(<<>>, v.schema), k.schema),
                                       <<>>, k.schema_id, k.schemas))
RecordOfValue(record, v) ==
    IF v.raised
    THEN RecordResult(TRUE, v.error, <<>>, NoGrpcRecord, v.schema_id, v.schemas)
    ELSE RecordOfKey(record, v, to_grpc_value(record.key, v.schema_id, v.schemas))
to_grpc_record(record, schema_id, schemas) ==
    RecordOfValue(record, to_grpc_value(record.value, schema_id, schemas))

\* AgentService.from_grpc_value, on the inbound cache client_schemas: the
\* Python value decoded, or the exception raised.
DecodeResult(raised, error, value) == [raised |-> raised, error |-> error, value |-> value]

AvroFromGrpc(value, schema) ==
    IF AvroReadable(schema, value.payload)
    THEN DecodeResult(FALSE, NoExc, AvroValue(schema, schemaless_reader(value.payload, schema)))
    ELSE DecodeResult(TRUE, Exc("EOFError", "cannot read datum"), PyNone)

\* from_grpc_value reading an avro_value of an unannounced schema id as bytes.
from_grpc_value_unannounced_as_bytes(value, client_schemas) ==
    CASE value.variant = "unset" -> DecodeResult(FALSE, NoExc, PyNone)
      [] value.variant = "avro_value" ->
            IF value.schema_id \notin DOMAIN client_schemas
            THEN DecodeResult(FALSE, NoExc, DomValue("bytes", "", value.payload))
            ELSE AvroFromGrpc(value, client_schemas[value.schema_id])
      [] value.variant = "json_value" ->
            IF JsonParsable(value.payload)
            THEN DecodeResult(FALSE, NoExc, DomValue("json", "", json_loads(value.payload)))
            ELSE DecodeResult(TRUE, Exc("JSONDecodeError", "Expecting value"), PyNone)
      [] value.variant = "bytes_value" -> DecodeResult(FALSE, NoExc, DomValue("bytes", "", value.payload))
      [] value.variant = "string_value" -> DecodeResult(FALSE, NoExc, DomValue("str", "", value.payload))
      [] value.variant = "boolean_value" -> DecodeResult(FALSE, NoExc, DomValue("bool", "", value.payload))
      [] value.variant = "long_value" -> DecodeResult(FALSE, NoExc, DomValue("int", "", value.payload))
      [] OTHER -> DecodeResult(FALSE, NoExc, DomValue("float", "", value.payload))

from_grpc_value(value, client_schemas) ==
    CASE value.variant = "unset" -> DecodeResult(FALSE, NoExc, PyNone)
      [] value.variant = "avro_value" ->
            IF value.schema_id \notin DOMAIN client_schemas
            THEN DecodeResult(TRUE, Exc("KeyError", ToString(value.schema_id)), PyNone)
            ELSE AvroFromGrpc(value, client_schemas[value.schema_id])
      [] value.variant = "json_value" ->
            IF JsonParsable(value.payload)
            THEN DecodeResult(FALSE, NoExc, DomValue("json", "", json_loads(value.payload)))
            ELSE DecodeResult(TRUE, Exc("JSONDecodeError", "Expecting value"), PyNone)
      [] value.variant = "bytes_value" -> DecodeResult(FALSE, NoExc, DomValue("bytes", "", value.payload))
      [] value.variant = "string_value" -> DecodeResult(FALSE, NoExc, DomValue("str", "", value.payload))
      [] value.variant = "boolean_value" -> DecodeResult(FALSE, NoExc, DomValue("bool", "", value.payload))
      [] value.variant = "long_value" -> DecodeResult(FALSE, NoExc, DomValue("int", "", value.payload))
      [] OTHER -> DecodeResult(FALSE, NoExc, DomValue("float", "", value.payload))

\* WithAnnouncement leaving the cache as it is.
AnnouncementDropped(cache, schema) == cache

\* Lines 145-147 and 173-175: a schema announcement carried by a request is
\* parsed and stored in the inbound cache under the peer's id.
WithAnnouncement(cache, schema) ==
    IF schema # NoSchema
    THEN Put(cache, schema.schema_id, parse_schema(schema.value))
    ELSE cache

\* The ids of the announcements a stream has applied (a ghost of the
\* stream's context).
AnnouncedIds(ids, schema) == IF schema # NoSchema THEN ids \cup {schema.schema_id} ELSE ids

\* RecordWithId
RecordWithId(record_id, value, key, headers, origin, timestamp) ==
    [record_id |-> record_id, value |-> value, key |-> key, headers |-> headers,
     origin |-> origin, timestamp |-> timestamp]
NoRecordWithId == RecordWithId(0, PyNone, PyNone, <<>>, "", 0)

\* The header comprehension of from_grpc_record (line 192) from header i
\* on: the first header value that fails to decode raises. r is what
\* from_grpc_value made of header i.
RECURSIVE HeadersFromGrpc(_, _, _, _)
HeaderFromGrpc(hs, i, headers, client_schemas, r) ==
    IF r.raised
    THEN [raised |-> TRUE, error |-> r.error, headers |-> headers]
    ELSE HeadersFromGrpc(hs, i + 1, Append(headers, Header(hs[i].name, r.value)),
                         client_schemas)
HeadersFromGrpc(hs, i, headers, client_schemas) ==
    IF i > Len(hs)
    THEN [raised |-> FALSE, error |-> NoExc, headers |-> headers]
    ELSE HeaderFromGrpc(hs, i, headers, client_schemas,
                        from_grpc_value(hs[i].value, client_schemas))

\* AgentService.from_grpc_record: v, k and h are what the value, the key
\* and the headers decoded to.
RecordFromGrpc(record, v, k, h) ==
    IF v.raised THEN [raised |-> TRUE, error |-> v.error, record |-> NoRecordWithId]
    ELSE IF k.raised THEN [raised |-> TRUE, error |-> k.error, record |-> NoRecordWithId]
    ELSE IF h.raised THEN [raised |-> TRUE, error |-> h.error, record |-> NoRecordWithId]
    ELSE [raised |-> FALSE, error |-> NoExc,
          record |-> RecordWithId(record.record_id, v.value, k.value, h.headers,
                                  record.origin, record.timestamp)]
from_grpc_record(record, client_schemas) ==
    RecordFromGrpc(record,
                   from_grpc_value(record.value, client_schemas),
                   from_grpc_value(record.key, client_schemas),
                   HeadersFromGrpc(record.headers, 1, <<>>, client_schemas))

\* The marshalling loop shared by read (lines 105-109) and process (lines
\* 159-165), run from record j to its next suspension point: the first
\* record whose to_grpc_record returns announcements ("schema": the loop is
\* about to yield the first of them), the first that raises ("raise"), or
\* the end of the list ("end"). acc is the list of wire records appended
\* so far.
RECURSIVE MarshalUntilYield(_, _, _, _, _)
MarshalRecord(records, j, acc, r) ==
    IF r.raised
    THEN [outcome |-> "raise", j |-> j, acc |-> acc, error |-> r.error,
          pending |-> <<>>, grpc_record |-> NoGrpcRecord,
          schema_id |-> r.schema_id, schemas |-> r.reg]
    ELSE IF r.schemas # <<>>
    THEN [outcome |-> "schema", j |-> j, acc |-> acc, error |-> NoExc,
          pending |-> r.schemas, grpc_record |-> r.record,
          schema_id |-> r.schema_id, schemas |-> r.reg]
    ELSE MarshalUntilYield(records, j + 1, Append(acc, r.record), r.schema_id, r.reg)
MarshalUntilYield(records, j, acc, reg_id, reg) ==
    IF j > Len(records)
    THEN [outcome |-> "end", j |-> j, acc |-> acc, error |-> NoExc,
          pending |-> <<>>, grpc_record |-> NoGrpcRecord,
          schema_id |-> reg_id, schemas |-> reg]
    ELSE MarshalRecord(records, j, acc, to_grpc_record(records[j], reg_id, reg))

\* [wrap_in_record(record) for record in records]
WrapAll(records) == [n \in 1..Len(records) |-> wrap_in_record(records[n])]

\* ----------------------------------------------------------- wire messages
\* One message handed to the transport by a yield, tagged with the stream
\* that yielded it: SourceResponse(schema=), SourceResponse(records=),
\* ProcessorResponse(schema=), ProcessorResponse(results=[result]) and
\* SinkResponse(record_id=, error=). error is <<>> when the optional field
\* is not set and <<text>> when it is.
Msg(stream, type, schema, records, record_id, error) ==
    [stream |-> stream, type |-> type, schema |-> schema, records |-> records,
     record_id |-> record_id, error |-> error]
SchemaMsg(stream, schema) == Msg(stream, "schema", schema, <<>>, 0, <<>>)
RecordsMsg(stream, records) == Msg(stream, "records", NoSchema, records, 0, <<>>)
ResultsMsg(stream, result) ==
    Msg(stream, "results", NoSchema, result.records, result.record_id, result.error)
SinkResponse(stream, record_id, error) == Msg(stream, "sink", NoSchema, <<>>, record_id, error)

\* ------------------------------------------------------------------ inputs
\* Records the agent returns from read and process.
RPlain == SimpleRecord(PyStr("x"), PyNone, <<>>)
RTuple == DomRecord("tuple", PyStr("y"), PyNone, <<>>)
RA == SimpleRecord(AvroValue(ASchema, "a1"), PyNone, <<>>)
RBA == SimpleRecord(AvroValue(BSchema, "b1"), PyNone, <<Header("h", AvroValue(AdocSchema, "a1"))>>)
RObj == SimpleRecord(PyObject, PyNone, <<>>)
RABadKey == SimpleRecord(AvroValue(ASchema, "a1"), PyObject, <<>>)

\* What one call of an agent method does: returns a value, raises, or
\* (process and write) returns a concurrent.futures.Future.
Outcome(kind, records, error) == [kind |-> kind, records |-> records, error |-> error]
Returns(records) == Outcome("return", records, NoExc)
Raises(e) == Outcome("raise", <<>>, e)
ReturnsFuture == Outcome("future", <<>>, NoExc)

ProcessOutcomes ==
    {Returns(l) : l \in {<<>>, <<RPlain>>, <<RA>>, <<RPlain, RBA>>, <<RPlain, RObj>>, <<RABadKey>>}}
    \cup {Raises(e) : e \in AgentExceptions}
    \cup {ReturnsFuture}
FutureOutcomes == {Returns(<<RA>>), Raises(Exc("RuntimeError", "boom"))}

\* Records the peer sends on a Processor or Sink stream, with the ids it
\* assigned; InAvro references the peer's schema id 1.
InRecord(record_id, value) ==
    [GrpcRecord(value, GrpcNone, <<>>, "", 0) EXCEPT !.record_id = record_id]
In7 == InRecord(7, GrpcValue("string_value", "x", 0))
In8 == InRecord(8, GrpcValue("string_value", "y", 0))
InAvro == InRecord(9, GrpcValue("avro_value", "bin_a1", 1))

\* ProcessorRequest: an optional schema announcement and a list of records.
ProcessorRequest(schema, records) == [schema |-> schema, records |-> records]
ProcRequests ==
    {ProcessorRequest(NoSchema, <<In7>>),
     ProcessorRequest(NoSchema, <<In7, In8>>),
     ProcessorRequest(NoSchema, <<InAvro>>),
     ProcessorRequest(Schema(1, ASchema), <<>>),
     ProcessorRequest(Schema(1, ASchema), <<InAvro>>),
     ProcessorRequest(Schema(1, InvalidSchema), <<In7>>)}

\* ------------------------------------------------------------------- state
ReadStreams == {"read1", "read2"}
ProcStream == "process"
SinkStream == "write"

VARIABLES
    schema_id,       \* AgentService.schema_id
    schemas,         \* AgentService.schemas: canonical schema string -> id
    client_schemas,  \* AgentService.client_schemas: peer's id -> parsed schema
    wire,            \* every message yielded so far, in the order yielded
    read_records,    \* read: read_records of each read stream
    op_result,       \* read: op_result of each read stream
    last_record_id,  \* read: last_record_id of each read stream
    emit,            \* read: position and locals of each stream's emit loop
    ack,             \* handle_read_requests: position and locals, per stream
    hooks,           \* the calls made to the agent's commit /
                     \* permanent_failure hooks and the requests handled, per stream
    proc,            \* process: position and locals of the Processor stream
    proc_inbound,    \* the inbound records of the Processor stream, in arrival order
    proc_handled,    \* what happened to each record whose result was yielded
    sink,            \* write: position and locals of the Sink stream
    sink_inbound,    \* the inbound records of the Sink stream, in arrival order
    sink_handled,    \* what happened to each record whose response was yielded
    server,          \* AgentServer.start and the MainExecutor thread of the process
    codec            \* the last value taken through the value codec, both ways

bridge_vars == <<schema_id, schemas, client_schemas, wire>>
source_vars == <<read_records, op_result, last_record_id, emit, ack, hooks>>
proc_vars == <<proc, proc_inbound, proc_handled>>
sink_vars == <<sink, sink_inbound, sink_handled>>
aux_vars == <<server, codec>>
vars == <<schema_id, schemas, client_schemas, wire, read_records, op_result,
          last_record_id, emit, ack, hooks, proc, proc_inbound, proc_handled,
          sink, sink_inbound, sink_handled, server, codec>>

\* ------------------------------------------------------ Processor: process
\* ProcessorResult(record_id=source_record.record_id)
ProcessorResult(record_id) == [record_id |-> record_id, error |-> <<>>, records |-> <<>>]

NoRequest == ProcessorRequest(NoSchema, <<>>)
ProcInit ==
    [pc |-> "wait", request |-> NoRequest, i |-> 0, arg |-> NoRecordWithId,
     grpc_result |-> ProcessorResult(0), processed_records |-> <<>>, j |-> 0,
     pending |-> <<>>, grpc_record |-> NoGrpcRecord, known |-> {}, announced |-> {}]

\* known and announced are ghosts: the ids the inbound cache held when the
\* current record was decoded, and the ids announced on this stream.
\*
\* What the ghost proc_handled keeps of one handled record: the id the peer
\* gave it, the stage that failed ("none" when nothing did), and the
\* records the agent returned for it.
Handled(c, failed) ==
    [record_id |-> c.request.records[c.i].record_id, failed |-> failed,
     outputs |-> c.processed_records]

\* ProcExcept without the try: the exception leaves the generator.
ProcExceptPropagates(c, e, failed) ==
    /\ proc' = [c EXCEPT !.pc = "aborted"]
    /\ UNCHANGED <<wire, proc_handled>>

\* The except branch of process (lines 167-169): the error is set on the
\* result built so far and the result is yielded.
ProcExcept(c, e, failed) ==
    LET result == [c.grpc_result EXCEPT !.error = <<str(e)>>]
    IN  /\ proc' = [c EXCEPT !.pc = "yield_result", !.grpc_result = result]
        /\ wire' = Append(wire, ResultsMsg(ProcStream, result))
        /\ proc_handled' = Append(proc_handled, Handled(c, failed))

\* Lines 159-166 from output record j on, up to the next yield.
ProcMarshal(c, j) ==
    LET m == MarshalUntilYield(WrapAll(c.processed_records), j, c.grpc_result.records,
                               schema_id, schemas)
        c1 == [c EXCEPT !.grpc_result.records = m.acc, !.j = m.j]
    IN  /\ schema_id' = m.schema_id
        /\ schemas' = m.schemas
        /\ CASE m.outcome = "schema" ->
                  /\ proc' = [c1 EXCEPT !.pc = "yield_schema", !.pending = Tail(m.pending),
                                        !.grpc_record = m.grpc_record]
                  /\ wire' = Append(wire, SchemaMsg(ProcStream, Head(m.pending)))
                  /\ UNCHANGED proc_handled
             [] m.outcome = "raise" -> ProcExcept(c1, m.error, "marshal")
             [] OTHER ->
                  /\ proc' = [c1 EXCEPT !.pc = "yield_result"]
                  /\ wire' = Append(wire, ResultsMsg(ProcStream, c1.grpc_result))
                  /\ proc_handled' = Append(proc_handled, Handled(c1, "none"))

\* ProcStartRecord decoding against the cache as it was before the
\* request's announcement was applied.
ProcStartRecordBeforeAnnouncement(c, i, cache) ==
    LET source_record == c.request.records[i]
        d == from_grpc_record(source_record, client_schemas)
        c1 == [c EXCEPT !.i = i, !.grpc_result = ProcessorResult(source_record.record_id),
                        !.processed_records = <<>>, !.j = 0, !.pending = <<>>,
                        !.grpc_record = NoGrpcRecord, !.arg = d.record,
                        !.known = DOMAIN client_schemas]
    IN  IF d.raised
        THEN ProcExcept(c1, d.error, "decode")
        ELSE /\ proc' = [c1 EXCEPT !.pc = "processing"]
             /\ UNCHANGED <<wire, proc_handled>>

\* Lines 150-154 for source record i of the current request: the result is
\* created, the record decoded and agent.process dispatched to a thread.
ProcStartRecord(c, i, cache) ==
    LET source_record == c.request.records[i]
        d == from_grpc_record(source_record, cache)
        c1 == [c EXCEPT !.i = i, !.grpc_result = ProcessorResult(source_record.record_id),
                        !.processed_records = <<>>, !.j = 0, !.pending = <<>>,
                        !.grpc_record = NoGrpcRecord, !.arg = d.record,
                        !.known = DOMAIN cache]
    IN  IF d.raised
        THEN ProcExcept(c1, d.error, "decode")
        ELSE /\ proc' = [c1 EXCEPT !.pc = "processing"]
             /\ UNCHANGED <<wire, proc_handled>>

\* The next ProcessorRequest arrives (lines 144-154).
ProcReceive(request) ==
    /\ proc.pc = "wait"
    /\ Len(proc_inbound) + Len(request.records) <= MaxProcRecords
    /\ UNCHANGED <<schema_id, schemas>>
    /\ IF request.schema # NoSchema /\ ParseRaises(request.schema.value)
       THEN /\ proc' = [proc EXCEPT !.pc = "aborted", !.request = request]
            /\ UNCHANGED <<client_schemas, wire, proc_inbound, proc_handled>>
       ELSE LET cache == WithAnnouncement(client_schemas, request.schema)
                c == [proc EXCEPT !.request = request,
                                  !.announced = AnnouncedIds(@, request.schema)]
            IN  /\ client_schemas' = cache
                /\ proc_inbound' = proc_inbound \o request.records
                /\ IF Len(request.records) > 0
                   THEN ProcStartRecord(c, 1, cache)
                   ELSE /\ proc' = c
                        /\ UNCHANGED <<wire, proc_handled>>
    /\ UNCHANGED <<source_vars, sink_vars, aux_vars>>

\* agent.process finishes in its thread (lines 152-165).
ProcAgentReturns(outcome) ==
    /\ proc.pc = "processing"
    /\ CASE outcome.kind = "raise" ->
              /\ ProcExcept(proc, outcome.error, "agent")
              /\ UNCHANGED <<schema_id, schemas>>
         [] outcome.kind = "future" ->
              /\ proc' = [proc EXCEPT !.pc = "future"]
              /\ UNCHANGED <<schema_id, schemas, wire, proc_handled>>
         [] OTHER -> ProcMarshal([proc EXCEPT !.processed_records = outcome.records], 1)
    /\ UNCHANGED <<client_schemas, proc_inbound, source_vars, sink_vars, aux_vars>>

\* The Future returned by agent.process completes (lines 155-165).
ProcFutureDone(outcome) ==
    /\ proc.pc = "future"
    /\ IF outcome.kind = "raise"
       THEN /\ ProcExcept(proc, outcome.error, "future")
            /\ UNCHANGED <<schema_id, schemas>>
       ELSE ProcMarshal([proc EXCEPT !.processed_records = outcome.records], 1)
    /\ UNCHANGED <<client_schemas, proc_inbound, source_vars, sink_vars, aux_vars>>

\* The generator is resumed after yielding an announcement (line 164): the
\* record's next announcement is yielded, or the record is appended and
\* the loop goes on.
ProcResumeSchema ==
    /\ proc.pc = "yield_schema"
    /\ IF proc.pending # <<>>
       THEN /\ proc' = [proc EXCEPT !.pending = Tail(proc.pending)]
            /\ wire' = Append(wire, SchemaMsg(ProcStream, Head(proc.pending)))
            /\ UNCHANGED <<schema_id, schemas, proc_handled>>
       ELSE ProcMarshal([proc EXCEPT !.grpc_result.records =
                                          Append(proc.grpc_result.records, proc.grpc_record)],
                        proc.j + 1)
    /\ UNCHANGED <<client_schemas, proc_inbound, source_vars, sink_vars, aux_vars>>

\* The generator is resumed after yielding a result (lines 166, 169): the
\* request's next record is handled, or the next request awaited.
ProcResumeResult ==
    /\ proc.pc = "yield_result"
    /\ IF proc.i < Len(proc.request.records)
       THEN ProcStartRecord(proc, proc.i + 1, client_schemas)
       ELSE /\ proc' = [proc EXCEPT !.pc = "wait"]
            /\ UNCHANGED <<wire, proc_handled>>
    /\ UNCHANGED <<schema_id, schemas, client_schemas, proc_inbound, source_vars, sink_vars, aux_vars>>

\* The peer closes the request stream: the async for ends.
ProcEnd ==
    /\ proc.pc = "wait"
    /\ proc' = [proc EXCEPT !.pc = "done"]
    /\ UNCHANGED <<bridge_vars, proc_inbound, proc_handled, source_vars, sink_vars, aux_vars>>

NextProcessor ==
    \/ \E request \in ProcRequests : ProcReceive(request)
    \/ \E outcome \in ProcessOutcomes : ProcAgentReturns(outcome)
    \/ \E outcome \in FutureOutcomes : ProcFutureDone(outcome)
    \/ ProcResumeSchema
    \/ ProcResumeResult
    \/ ProcEnd

\* ------------------------------------------------------------ Source: read
\* What agent.read returns: a batch of records (possibly empty), or it raises.
ReadOutcomes ==
    {Returns(l) : l \in {<<>>, <<RPlain>>, <<RTuple, RA>>, <<RABadKey>>}}
    \cup {Raises(Exc("RuntimeError", "boom"))}

\* SourceRequest: committed_records and the optional permanent_failure.
PermanentFailure(record_id, error_message) ==
    [set |-> TRUE, record_id |-> record_id, error_message |-> error_message]
NoPermanentFailure == [set |-> FALSE, record_id |-> 0, error_message |-> ""]
SourceRequest(committed_records, permanent_failure) ==
    [committed_records |-> committed_records, permanent_failure |-> permanent_failure]
SourceRequests ==
    {SourceRequest(<<1>>, NoPermanentFailure),
     SourceRequest(<<3, 2>>, NoPermanentFailure),
     SourceRequest(<<>>, PermanentFailure(2, "rejected")),
     SourceRequest(<<1>>, PermanentFailure(1, "rejected"))}

\* What a commit or permanent_failure hook does: returns or raises.
HookOutcomes == {Returns(<<>>), Raises(Exc("RuntimeError", "hook failed"))}

\* The Python None passed where a Record is expected.
NoneRecord == DomRecord("none", PyNone, PyNone, <<>>)

\* An entry of op_result: True, or the exception caught.
OpTrue == [ok |-> TRUE, error |-> NoExc]
OpError(e) == [ok |-> FALSE, error |-> e]

EmitInit ==
    [pc |-> "loop", records |-> <<>>, j |-> 0, grpc_records |-> <<>>,
     pending |-> <<>>, grpc_record |-> NoGrpcRecord, error |-> NoExc,
     reads |-> 0, empties |-> 0, emitted |-> <<>>]
AckInit ==
    [pc |-> "wait", request |-> SourceRequest(<<>>, NoPermanentFailure), k |-> 0, n |-> 0,
     issued |-> 0, during_read |-> FALSE]

\* What the ghost hooks[r].handled keeps of a request handled to its end:
\* the request and the last record id issued when it arrived.
HandledRequest(c) == [request |-> c.request, issued |-> c.issued]
HooksInit == [commit |-> <<>>, permanent_failure |-> <<>>, handled |-> <<>>]

\* AssignIds numbering every batch from 1.
AssignIdsPerBatch(grpc_records, last) ==
    [n \in 1..Len(grpc_records) |-> [grpc_records[n] EXCEPT !.record_id = n]]

\* Lines 110-112: the record ids given to a marshalled batch, counting on
\* from last_record_id.
AssignIds(grpc_records, last) ==
    [n \in 1..Len(grpc_records) |-> [grpc_records[n] EXCEPT !.record_id = last + n]]

\* Retain storing nothing.
RetainNothing(map, records, last) == map

\* Line 113 over the batch: read_records[id] = record for each record.
Retain(map, records, last) ==
    [id \in (DOMAIN map) \cup ((last + 1)..(last + Len(records))) |->
        IF id > last /\ id <= last + Len(records) THEN records[id - last] ELSE map[id]]

\* Lines 105-114 from record j of the batch on, up to the next yield or to
\* the exception that ends the generator.
ReadMarshal(r, c, j) ==
    LET m == MarshalUntilYield(c.records, j, c.grpc_records, schema_id, schemas)
        c1 == [c EXCEPT !.grpc_records = m.acc, !.j = m.j]
        last == last_record_id[r]
    IN  /\ schema_id' = m.schema_id
        /\ schemas' = m.schemas
        /\ CASE m.outcome = "schema" ->
                  /\ emit' = [emit EXCEPT ![r] =
                                [c1 EXCEPT !.pc = "yield_schema", !.pending = Tail(m.pending),
                                           !.grpc_record = m.grpc_record]]
                  /\ wire' = Append(wire, SchemaMsg(r, Head(m.pending)))
                  /\ UNCHANGED <<read_records, last_record_id>>
             [] m.outcome = "raise" ->
                  /\ emit' = [emit EXCEPT ![r] = [c1 EXCEPT !.pc = "failed", !.error = m.error]]
                  /\ UNCHANGED <<wire, read_records, last_record_id>>
             [] OTHER ->
                  /\ emit' = [emit EXCEPT ![r] =
                                [c1 EXCEPT !.pc = "loop", !.emitted = c.emitted \o c.records]]
                  /\ last_record_id' = [last_record_id EXCEPT ![r] = last + Len(c.records)]
                  /\ read_records' = [read_records EXCEPT ![r] = Retain(@, c.records, last)]
                  /\ wire' = Append(wire, RecordsMsg(r, AssignIds(m.acc, last)))

\* The top of the emit loop (lines 96-101): the outcome of the ack loop
\* ends the generator, otherwise agent.read is dispatched to a thread.
ReadLoop(r) ==
    /\ emit[r].pc = "loop"
    /\ IF Len(op_result[r]) > 0
       THEN IF op_result[r][1].ok
            THEN emit' = [emit EXCEPT ![r].pc = "done"]
            ELSE emit' = [emit EXCEPT ![r].pc = "failed", ![r].error = op_result[r][1].error]
       ELSE /\ emit[r].reads < MaxReads
            /\ emit' = [emit EXCEPT ![r].pc = "reading", ![r].reads = @ + 1]
    /\ UNCHANGED <<bridge_vars, read_records, op_result, last_record_id, ack, hooks,
                   proc_vars, sink_vars, aux_vars>>

\* agent.read finishes in its thread (lines 101-114).
ReadReturns(r, outcome) ==
    /\ emit[r].pc = "reading"
    /\ IF outcome.kind = "raise"
       THEN /\ emit' = [emit EXCEPT ![r].pc = "failed", ![r].error = outcome.error]
            /\ UNCHANGED <<schema_id, schemas, wire, read_records, last_record_id>>
       ELSE IF Len(outcome.records) = 0
       THEN /\ emit' = [emit EXCEPT ![r].pc = "loop", ![r].empties = @ + 1]
            /\ UNCHANGED <<schema_id, schemas, wire, read_records, last_record_id>>
       ELSE ReadMarshal(r, [emit[r] EXCEPT !.records = WrapAll(outcome.records),
                                           !.grpc_records = <<>>], 1)
    /\ UNCHANGED <<client_schemas, op_result, ack, hooks, proc_vars, sink_vars, aux_vars>>

\* The generator is resumed after yielding an announcement (line 108).
ReadResumeSchema(r) ==
    /\ emit[r].pc = "yield_schema"
    /\ IF emit[r].pending # <<>>
       THEN /\ emit' = [emit EXCEPT ![r].pending = Tail(@)]
            /\ wire' = Append(wire, SchemaMsg(r, Head(emit[r].pending)))
            /\ UNCHANGED <<schema_id, schemas, read_records, last_record_id>>
       ELSE ReadMarshal(r, [emit[r] EXCEPT !.grpc_records = Append(@, emit[r].grpc_record)],
                        emit[r].j + 1)
    /\ UNCHANGED <<client_schemas, op_result, ack, hooks, proc_vars, sink_vars, aux_vars>>

\* ------------------------------------------- Source: handle_read_requests
\* pop as a lookup that leaves the entry in the map.
popKeepsEntry(map, record_id) ==
    IF record_id \in DOMAIN map
    THEN [record |-> map[record_id], map |-> map]
    ELSE [record |-> NoneRecord, map |-> map]

\* read_records.pop(record_id, None): the record removed (None when the id
\* is no key) and the map left.
pop(map, record_id) ==
    IF record_id \in DOMAIN map
    THEN [record |-> map[record_id],
          map |-> [id \in (DOMAIN map) \ {record_id} |-> map[id]]]
    ELSE [record |-> NoneRecord, map |-> map]

\* Lines 126-128 from committed id k on: ids are popped up to the first
\* one that was a key, whose commit hook is then awaited.
RECURSIVE CommitUntilAwait(_, _, _)
CommitUntilAwait(ids, k, map) ==
    IF k > Len(ids)
    THEN [found |-> FALSE, k |-> k, record |-> NoneRecord, map |-> map]
    ELSE LET p == pop(map, ids[k])
         IN  IF p.record # NoneRecord
             THEN [found |-> TRUE, k |-> k, record |-> p.record, map |-> p.map]
             ELSE CommitUntilAwait(ids, k + 1, p.map)

\* FailureCall without the record popped.
FailureCallWithoutRecord(record, failure) ==
    [record_id |-> failure.record_id, record |-> NoneRecord,
     error |-> Exc("RuntimeError", failure.error_message)]

\* The arguments of the permanent_failure hook (lines 133-138).
FailureCall(record, failure) ==
    [record_id |-> failure.record_id, record |-> record,
     error |-> Exc("RuntimeError", failure.error_message)]

\* Lines 125-138 of the current request from committed id k on, up to the
\* next hook awaited or to the end of the request.
AckHandle(r, c, k) ==
    LET m == CommitUntilAwait(c.request.committed_records, k, read_records[r])
        failure == c.request.permanent_failure
        p == pop(m.map, failure.record_id)
    IN  IF m.found
        THEN /\ read_records' = [read_records EXCEPT ![r] = m.map]
             /\ ack' = [ack EXCEPT ![r] = [c EXCEPT !.pc = "commit_hook", !.k = m.k]]
             /\ hooks' = [hooks EXCEPT ![r].commit =
                            Append(@, [record_id |-> c.request.committed_records[m.k],
                                       record |-> m.record])]
        ELSE IF failure.set
        THEN /\ read_records' = [read_records EXCEPT ![r] = p.map]
             /\ ack' = [ack EXCEPT ![r] = [c EXCEPT !.pc = "failure_hook", !.k = m.k]]
             /\ hooks' = [hooks EXCEPT ![r].permanent_failure =
                            Append(@, FailureCall(p.record, failure))]
        ELSE /\ read_records' = [read_records EXCEPT ![r] = m.map]
             /\ ack' = [ack EXCEPT ![r] = [c EXCEPT !.pc = "wait", !.k = m.k]]
             /\ hooks' = [hooks EXCEPT ![r].handled = Append(@, HandledRequest(c))]

\* AckReceive on an event loop that agent.read blocks until it returns.
AckReceiveAfterRead(r, request) ==
    /\ ack[r].pc = "wait"
    /\ ack[r].n < MaxAcks
    /\ emit[r].pc # "reading"
    /\ AckHandle(r, [ack[r] EXCEPT !.request = request, !.n = @ + 1,
                                   !.issued = last_record_id[r],
                                   !.during_read = FALSE], 1)
    /\ UNCHANGED <<bridge_vars, op_result, last_record_id, emit, proc_vars, sink_vars, aux_vars>>

\* The next SourceRequest arrives (line 124). issued and during_read are
\* ghosts: the last id issued, and whether an agent.read call was
\* outstanding, when the request arrived.
AckReceive(r, request) ==
    /\ ack[r].pc = "wait"
    /\ ack[r].n < MaxAcks
    /\ AckHandle(r, [ack[r] EXCEPT !.request = request, !.n = @ + 1,
                                   !.issued = last_record_id[r],
                                   !.during_read = (emit[r].pc = "reading")], 1)
    /\ UNCHANGED <<bridge_vars, op_result, last_record_id, emit, proc_vars, sink_vars, aux_vars>>

\* The commit hook awaited on line 129 finishes.
AckCommitReturns(r, outcome) ==
    /\ ack[r].pc = "commit_hook"
    /\ IF outcome.kind = "raise"
       THEN /\ op_result' = [op_result EXCEPT ![r] = Append(@, OpError(outcome.error))]
            /\ ack' = [ack EXCEPT ![r].pc = "ended"]
            /\ UNCHANGED <<read_records, hooks>>
       ELSE /\ AckHandle(r, ack[r], ack[r].k + 1)
            /\ UNCHANGED op_result
    /\ UNCHANGED <<bridge_vars, last_record_id, emit, proc_vars, sink_vars, aux_vars>>

\* The permanent_failure hook awaited on line 133 finishes.
AckFailureReturns(r, outcome) ==
    /\ ack[r].pc = "failure_hook"
    /\ IF outcome.kind = "raise"
       THEN /\ op_result' = [op_result EXCEPT ![r] = Append(@, OpError(outcome.error))]
            /\ ack' = [ack EXCEPT ![r].pc = "ended"]
            /\ UNCHANGED hooks
       ELSE /\ ack' = [ack EXCEPT ![r].pc = "wait"]
            /\ hooks' = [hooks EXCEPT ![r].handled = Append(@, HandledRequest(ack[r]))]
            /\ UNCHANGED op_result
    /\ UNCHANGED <<bridge_vars, read_records, last_record_id, emit, proc_vars, sink_vars, aux_vars>>

\* The peer closes the request stream: the async for ends (line 139).
AckEnd(r) ==
    /\ ack[r].pc = "wait"
    /\ op_result' = [op_result EXCEPT ![r] = Append(@, OpTrue)]
    /\ ack' = [ack EXCEPT ![r].pc = "ended"]
    /\ UNCHANGED <<bridge_vars, read_records, last_record_id, emit, hooks,
                   proc_vars, sink_vars, aux_vars>>

\* Every step of one read stream: its emit loop and its ack loop.
NextSourceOf(r) ==
    \/ ReadLoop(r)
    \/ \E outcome \in ReadOutcomes : ReadReturns(r, outcome)
    \/ ReadResumeSchema(r)
    \/ \E request \in SourceRequests : AckReceive(r, request)
    \/ \E outcome \in HookOutcomes : AckCommitReturns(r, outcome)
    \/ \E outcome \in HookOutcomes : AckFailureReturns(r, outcome)
    \/ AckEnd(r)

\* One read stream with its peer.
NextSource == NextSourceOf("read1")

\* Several read streams open at once whose peers only close them.
NextSources ==
    \E r \in ReadStreams :
        \/ ReadLoop(r)
        \/ \E outcome \in ReadOutcomes : ReadReturns(r, outcome)
        \/ ReadResumeSchema(r)
        \/ AckEnd(r)

\* -------------------------------------------------------------- Sink: write
\* SinkRequest: an optional schema announcement and an optional record.
SinkRequest(schema, has_record, record) ==
    [schema |-> schema, has_record |-> has_record, record |-> record]
SinkRequests ==
    {SinkRequest(NoSchema, TRUE, In7),
     SinkRequest(NoSchema, TRUE, In8),
     SinkRequest(NoSchema, TRUE, InAvro),
     SinkRequest(Schema(1, ASchema), FALSE, NoGrpcRecord),
     SinkRequest(Schema(1, ASchema), TRUE, InAvro),
     SinkRequest(Schema(1, InvalidSchema), TRUE, In7)}

\* What agent.write does, and how a Future it returned completes.
WriteOutcomes == {Returns(<<>>), ReturnsFuture} \cup {Raises(e) : e \in AgentExceptions}
WriteFutureOutcomes == {Returns(<<>>), Raises(Exc("RuntimeError", "boom"))}

SinkInit ==
    [pc |-> "wait", request |-> SinkRequest(NoSchema, FALSE, NoGrpcRecord),
     arg |-> NoRecordWithId, known |-> {}, announced |-> {}]

\* Line 183: the response to a record written.
SinkWritten(record) == SinkResponse(SinkStream, record.record_id, <<>>)

\* SinkFailed with the error left out of the response.
SinkFailedWithoutError(record, e) == SinkResponse(SinkStream, record.record_id, <<>>)

\* Line 185: the response to a record whose handling raised e.
SinkFailed(record, e) == SinkResponse(SinkStream, record.record_id, <<str(e)>>)

\* A response is yielded (lines 183, 185); the ghost sink_handled keeps the
\* record's id and the stage that failed ("none" when nothing did).
SinkYield(response, failed) ==
    /\ sink' = [sink EXCEPT !.pc = "yield"]
    /\ wire' = Append(wire, response)
    /\ sink_handled' = Append(sink_handled,
                              [record_id |-> sink.request.record.record_id, failed |-> failed])

\* The next SinkRequest arrives (lines 172-180).
SinkReceive(request) ==
    /\ sink.pc = "wait"
    /\ Len(sink_inbound) + (IF request.has_record THEN 1 ELSE 0) <= MaxSinkRecords
    /\ IF request.schema # NoSchema /\ ParseRaises(request.schema.value)
       THEN /\ sink' = [sink EXCEPT !.pc = "aborted", !.request = request]
            /\ UNCHANGED <<client_schemas, wire, sink_inbound, sink_handled>>
       ELSE LET cache == WithAnnouncement(client_schemas, request.schema)
                d == from_grpc_record(request.record, cache)
                c == [sink EXCEPT !.request = request,
                                  !.announced = AnnouncedIds(@, request.schema),
                                  !.known = IF request.has_record THEN DOMAIN cache ELSE @]
            IN  /\ client_schemas' = cache
                /\ sink_inbound' = IF request.has_record
                                   THEN Append(sink_inbound, request.record)
                                   ELSE sink_inbound
                /\ IF ~request.has_record
                   THEN /\ sink' = c
                        /\ UNCHANGED <<wire, sink_handled>>
                   ELSE IF d.raised
                   THEN /\ sink' = [c EXCEPT !.pc = "yield"]
                        /\ wire' = Append(wire, SinkFailed(request.record, d.error))
                        /\ sink_handled' = Append(sink_handled,
                                                  [record_id |-> request.record.record_id,
                                                   failed |-> "decode"])
                   ELSE /\ sink' = [c EXCEPT !.pc = "writing", !.arg = d.record]
                        /\ UNCHANGED <<wire, sink_handled>>
    /\ UNCHANGED <<schema_id, schemas, source_vars, proc_vars, aux_vars>>

\* agent.write finishes in its thread (lines 178-185).
SinkAgentReturns(outcome) ==
    /\ sink.pc = "writing"
    /\ CASE outcome.kind = "raise" ->
              SinkYield(SinkFailed(sink.request.record, outcome.error), "agent")
         [] outcome.kind = "future" ->
              /\ sink' = [sink EXCEPT !.pc = "future"]
              /\ UNCHANGED <<wire, sink_handled>>
         [] OTHER -> SinkYield(SinkWritten(sink.request.record), "none")
    /\ UNCHANGED <<schema_id, schemas, client_schemas, sink_inbound, source_vars, proc_vars, aux_vars>>

\* The Future returned by agent.write completes (lines 181-185).
SinkFutureDone(outcome) ==
    /\ sink.pc = "future"
    /\ IF outcome.kind = "raise"
       THEN SinkYield(SinkFailed(sink.request.record, outcome.error), "future")
       ELSE SinkYield(SinkWritten(sink.request.record), "none")
    /\ UNCHANGED <<schema_id, schemas, client_schemas, sink_inbound, source_vars, proc_vars, aux_vars>>

\* The generator is resumed after yielding a response: the next request is
\* awaited.
SinkResume ==
    /\ sink.pc = "yield"
    /\ sink' = [sink EXCEPT !.pc = "wait"]
    /\ UNCHANGED <<bridge_vars, sink_inbound, sink_handled, source_vars, proc_vars, aux_vars>>

\* The peer closes the request stream: the async for ends.
SinkEnd ==
    /\ sink.pc = "wait"
    /\ sink' = [sink EXCEPT !.pc = "done"]
    /\ UNCHANGED <<bridge_vars, sink_inbound, sink_handled, source_vars, proc_vars, aux_vars>>

NextSink ==
    \/ \E request \in SinkRequests : SinkReceive(request)
    \/ \E outcome \in WriteOutcomes : SinkAgentReturns(outcome)
    \/ \E outcome \in WriteFutureOutcomes : SinkFutureDone(outcome)
    \/ SinkResume
    \/ SinkEnd

\* ------------------------------------------- AgentServer.start and main
\* The attributes of the os module that the code looks up.
OsAttributes == {"_exit", "environ"}

\* crash_process (lines 317-319): os.exit(1). The attribute lookup os.exit
\* raises AttributeError when the os module has no such attribute.
crash_process ==
    IF "exit" \in OsAttributes
    THEN [exited |-> TRUE, raised |-> NoExc]
    ELSE [exited |-> FALSE,
          raised |-> Exc("AttributeError", "module 'os' has no attribute 'exit'")]

\* phase: where AgentServer.start and AgentServer.stop are: "created" (the
\* start hook of the agent is awaited, or start was not called yet),
\* "start_failed" (the start hook raised and start ended with it),
\* "starting" (grpc_server.start is awaited), "serving", "closing" (the
\* server is stopped and the close hook awaited), "stopped",
\* "close_failed" (the close hook raised). started: grpc_server.start has
\* returned; stopped: grpc_server.stop has returned. main: the
\* MainExecutor thread ("none" when there is none, "running", "returned",
\* "raised" when main raised); main_error: what main raised;
\* thread_error: the exception that left MainExecutor.run uncaught;
\* hook_error: what the start or close hook raised; exited: the process
\* has exited.
ServerInit ==
    [phase |-> "created", started |-> FALSE, stopped |-> FALSE, main |-> "none",
     main_error |-> NoExc, thread_error |-> NoExc, hook_error |-> NoExc,
     exited |-> FALSE]

\* What the agent's start and close hooks do: return or raise.
LifecycleOutcomes == {Returns(<<>>), Raises(Exc("RuntimeError", "boom"))}

\* AgentServer.start, lines 362-369: the start hook awaited on line 362
\* finishes. If it raised, start ends with the exception. Otherwise
\* call_method_new_thread_if_exists (lines 307-314) starts a callable main
\* on a MainExecutor thread, the servicer is added and grpc_server.start
\* is awaited.
ServerStartHookDone(outcome, has_main) ==
    /\ server.phase = "created"
    /\ ~server.exited
    /\ IF outcome.kind = "raise"
       THEN server' = [server EXCEPT !.phase = "start_failed",
                                     !.hook_error = outcome.error]
       ELSE server' = [server EXCEPT !.phase = "starting",
                                     !.main = IF has_main THEN "running" ELSE "none"]
    /\ UNCHANGED <<bridge_vars, source_vars, proc_vars, sink_vars, codec>>

\* AgentServer.start, lines 369-370: grpc_server.start returns and the
\* server serves streams.
ServerStarted ==
    /\ server.phase = "starting"
    /\ ~server.exited
    /\ server' = [server EXCEPT !.phase = "serving", !.started = TRUE]
    /\ UNCHANGED <<bridge_vars, source_vars, proc_vars, sink_vars, codec>>

\* AgentServer.stop, lines 373-374, called on a server that serves:
\* grpc_server.stop(None) returns, the server serves no stream any more,
\* and the close hook of the agent is awaited.
ServerStop ==
    /\ server.phase = "serving"
    /\ ~server.exited
    /\ server' = [server EXCEPT !.phase = "closing", !.stopped = TRUE]
    /\ UNCHANGED <<bridge_vars, source_vars, proc_vars, sink_vars, codec>>

\* AgentServer.stop, line 374: the close hook finishes.
ServerCloseDone(outcome) ==
    /\ server.phase = "closing"
    /\ ~server.exited
    /\ IF outcome.kind = "raise"
       THEN server' = [server EXCEPT !.phase = "close_failed",
                                     !.hook_error = outcome.error]
       ELSE server' = [server EXCEPT !.phase = "stopped"]
    /\ UNCHANGED <<bridge_vars, source_vars, proc_vars, sink_vars, codec>>

\* MainExecutor.run (lines 298-301): main returns.
MainReturns ==
    /\ server.main = "running"
    /\ ~server.exited
    /\ server' = [server EXCEPT !.main = "returned"]
    /\ UNCHANGED <<bridge_vars, source_vars, proc_vars, sink_vars, codec>>

\* MainExecutor.run (lines 302-304): main raises e; the except branch logs
\* it and calls onError, which is crash_process.
MainRaises(e) ==
    /\ server.main = "running"
    /\ ~server.exited
    /\ server' = [server EXCEPT !.main = "raised", !.main_error = e,
                                !.thread_error = crash_process.raised,
                                !.exited = crash_process.exited]
    /\ UNCHANGED <<bridge_vars, source_vars, proc_vars, sink_vars, codec>>

\* ------------------------------------------------------------ value codec
\* Domain values of every kind to_grpc_value supports, and wire values of
\* every variant from_grpc_value reads.
CodecDomValues ==
    {PyNone, DomValue("bytes", "", "blob"), PyStr("x"), DomValue("bool", "", "True"),
     DomValue("int", "", "42"), DomValue("float", "", "1.5"),
     AvroValue(ASchema, "a1"), AvroValue(BSchema, "b1"), DomValue("json", "", "d1")}
CodecWireValues ==
    {GrpcNone, GrpcValue("bytes_value", "blob", 0), GrpcValue("string_value", "x", 0),
     GrpcValue("boolean_value", "True", 0), GrpcValue("long_value", "42", 0),
     GrpcValue("double_value", "1.5", 0),
     GrpcValue("avro_value", "bin_a1", 1), GrpcValue("avro_value", "bin_b1", 2),
     GrpcValue("json_value", "json_d1", 0), GrpcValue("json_value", "json_d1_compact", 0)}
CodecAnnouncements == {Schema(1, ASchema), Schema(2, BSchema)}

\* op: the direction taken last; dom and grpc: the domain and the wire
\* value involved; raised: whether the first conversion raised; back: what
\* the inverse conversion made of the result of the first; cache: the
\* inbound cache the conversions ran against.
CodecInit ==
    [op |-> "none", dom |-> PyNone, grpc |-> GrpcNone, raised |-> FALSE,
     back_raised |-> FALSE, back_dom |-> PyNone, back_grpc |-> GrpcNone,
     cache |-> EmptyMap]

\* What to_grpc_value made of a decoded value (None when decoding raised).
EncodeDecoded(d, reg_id, reg) ==
    IF d.raised
    THEN ValueResult(TRUE, d.error, NoSchema, GrpcNone, reg_id, reg)
    ELSE to_grpc_value(d.value, reg_id, reg)

\* What from_grpc_value made of an encoded value.
DecodeEncoded(r, cache) ==
    IF r.raised THEN DecodeResult(TRUE, r.error, PyNone) ELSE from_grpc_value(r.value, cache)

\* to_grpc_value(value), then from_grpc_value of the wire value it made.
CodecEncoded(value, r, d) ==
    /\ schema_id' = r.schema_id
    /\ schemas' = r.schemas
    /\ codec' = [op |-> "encode", dom |-> value, grpc |-> r.value, raised |-> r.raised,
                 back_raised |-> d.raised, back_dom |-> d.value, back_grpc |-> GrpcNone,
                 cache |-> client_schemas]
CodecEncode(value) ==
    /\ CodecEncoded(value, to_grpc_value(value, schema_id, schemas),
                    DecodeEncoded(to_grpc_value(value, schema_id, schemas), client_schemas))
    /\ UNCHANGED <<client_schemas, wire, source_vars, proc_vars, sink_vars, server>>

\* from_grpc_value(value), then to_grpc_value of the Python value it made.
CodecDecoded(value, d, r) ==
    /\ schema_id' = r.schema_id
    /\ schemas' = r.schemas
    /\ codec' = [op |-> "decode", dom |-> d.value, grpc |-> value, raised |-> d.raised,
                 back_raised |-> r.raised, back_dom |-> PyNone, back_grpc |-> r.value,
                 cache |-> client_schemas]
CodecDecode(value) ==
    /\ CodecDecoded(value, from_grpc_value(value, client_schemas),
                    EncodeDecoded(from_grpc_value(value, client_schemas), schema_id, schemas))
    /\ UNCHANGED <<client_schemas, wire, source_vars, proc_vars, sink_vars, server>>

\* A schema announcement of the peer is applied to the inbound cache.
CodecAnnounce(schema) ==
    /\ client_schemas' = WithAnnouncement(client_schemas, schema)
    /\ UNCHANGED <<schema_id, schemas, wire, source_vars, proc_vars, sink_vars, aux_vars>>

NextCodec ==
    \/ \E value \in CodecDomValues : CodecEncode(value)
    \/ \E value \in CodecWireValues : CodecDecode(value)
    \/ \E schema \in CodecAnnouncements : CodecAnnounce(schema)

\* -------------------------------------------------------------------- init
Init ==
    /\ schema_id = 0
    /\ schemas = EmptyMap
    /\ client_schemas = EmptyMap
    /\ wire = <<>>
    /\ read_records = [r \in ReadStreams |-> EmptyMap]
    /\ op_result = [r \in ReadStreams |-> <<>>]
    /\ last_record_id = [r \in ReadStreams |-> 0]
    /\ emit = [r \in ReadStreams |-> EmitInit]
    /\ ack = [r \in ReadStreams |-> AckInit]
    /\ hooks = [r \in ReadStreams |-> HooksInit]
    /\ proc = ProcInit
    /\ proc_inbound = <<>>
    /\ proc_handled = <<>>
    /\ sink = SinkInit
    /\ sink_inbound = <<>>
    /\ sink_handled = <<>>
    /\ server = ServerInit
    /\ codec = CodecInit

\* All the streams of one AgentService instance.
Next ==
    \/ \E r \in ReadStreams : NextSourceOf(r)
    \/ NextProcessor
    \/ NextSink

Spec == Init /\ [][Next]_vars
SpecProcessor == Init /\ [][NextProcessor]_vars
SpecSink == Init /\ [][NextSink]_vars
SpecSource == Init /\ [][NextSource]_vars
SpecSources == Init /\ [][NextSources]_vars

\* One read stream whose emit loop keeps running: the transport takes every
\* message yielded and resumes the generator, and every agent.read call
\* dispatched to a thread finishes.
SpecSourceLive ==
    /\ Init
    /\ [][NextSource]_vars
    /\ WF_vars(ReadLoop("read1"))
    /\ WF_vars(\E outcome \in ReadOutcomes : ReadReturns("read1", outcome))
    /\ WF_vars(ReadResumeSchema("read1"))
SpecCodec == Init /\ [][NextCodec]_vars

\* Two read streams open at once whose agents return records with
\* AvroValues of two schemas.
EncoderOutcomes == {Returns(<<RA>>), Returns(<<RBA>>), Returns(<<RPlain, RABadKey>>)}
NextEncoders ==
    \E r \in ReadStreams :
        \/ ReadLoop(r)
        \/ \E outcome \in EncoderOutcomes : ReadReturns(r, outcome)
        \/ ReadResumeSchema(r)
SpecEncoders == Init /\ [][NextEncoders]_vars

\* A Processor stream and a Sink stream open at once on one instance, with
\* agents that return at once.
InboundProcRequests ==
    {ProcessorRequest(NoSchema, <<In7>>),
     ProcessorRequest(NoSchema, <<InAvro>>),
     ProcessorRequest(Schema(1, ASchema), <<>>),
     ProcessorRequest(Schema(1, ASchema), <<InAvro>>)}
InboundSinkRequests ==
    {SinkRequest(NoSchema, TRUE, In8),
     SinkRequest(NoSchema, TRUE, InAvro),
     SinkRequest(Schema(1, ASchema), FALSE, NoGrpcRecord),
     SinkRequest(Schema(1, ASchema), TRUE, InAvro)}
NextInbound ==
    \/ \E request \in InboundProcRequests : ProcReceive(request)
    \/ ProcAgentReturns(Returns(<<RPlain>>))
    \/ ProcResumeResult
    \/ \E request \in InboundSinkRequests : SinkReceive(request)
    \/ SinkAgentReturns(Returns(<<>>))
    \/ SinkResume
SpecInbound == Init /\ [][NextInbound]_vars

\* The process: AgentServer.start and stop, the main thread, and a Sink
\* stream served from the moment the server has started until it is
\* stopped, while the process runs.
NextServer ==
    \/ \E outcome \in LifecycleOutcomes, has_main \in BOOLEAN :
          ServerStartHookDone(outcome, has_main)
    \/ ServerStarted
    \/ ServerStop
    \/ \E outcome \in LifecycleOutcomes : ServerCloseDone(outcome)
    \/ MainReturns
    \/ \E e \in AgentExceptions : MainRaises(e)
    \/ (server.started /\ ~server.stopped /\ ~server.exited /\ NextSink)
SpecServer == Init /\ [][NextServer]_vars

\* ------------------------------------------------------------------ claims
\* The messages of one type a stream has yielded, in order.
Yielded(stream, type) == SelectSeq(wire, LAMBDA m : m.stream = stream /\ m.type = type)

\* The wire values of a wire record: its value, its key, its header values.
GrpcValuesOf(record) ==
    {record.value, record.key} \cup {record.headers[n].value : n \in 1..Len(record.headers)}

ProcResults == Yielded(ProcStream, "results")

\* The wire record marshalled from an output record carries its value.
CarriesValue(output, grpc_record) ==
    /\ output.value.kind = "str" =>
          grpc_record.value = GrpcValue("string_value", output.value.payload, 0)
    /\ output.value.kind = "avro" => grpc_record.value.variant = "avro_value"

\* C1: on a Processor stream no failure of a record aborts the stream (the
\* generator ends with an exception only on an unparsable schema
\* announcement); the results yielded answer the inbound records one for
\* one, in arrival order, each with the id the peer gave the record, and
\* every inbound record is answered once the stream waits for its next
\* request; a record whose handling did not fail, also one that follows a
\* failed record, gets a result without error that holds one wire record
\* per record the agent returned.
C1_ProcessorIsolatesFailures ==
    /\ proc.pc = "aborted" => ParseRaises(proc.request.schema.value)
    /\ Len(ProcResults) <= Len(proc_inbound)
    /\ \A n \in 1..Len(ProcResults) : ProcResults[n].record_id = proc_inbound[n].record_id
    /\ proc.pc \in {"wait", "done"} => Len(ProcResults) = Len(proc_inbound)
    /\ proc.pc \in {"processing", "future", "yield_schema"} =>
          Len(ProcResults) = proc.i - 1 + Len(proc_inbound) - Len(proc.request.records)
    /\ Len(proc_handled) = Len(ProcResults)
    /\ \A n \in 1..Len(proc_handled) :
          proc_handled[n].failed = "none" =>
             /\ ProcResults[n].error = <<>>
             /\ Len(ProcResults[n].records) = Len(proc_handled[n].outputs)
             /\ \A k \in 1..Len(proc_handled[n].outputs) :
                   CarriesValue(proc_handled[n].outputs[k], ProcResults[n].records[k])

\* C1 witness: the agent raised for one record, and the next record was
\* processed and answered with its output records.
C1_Witness ==
    \E n \in 1..(Len(proc_handled) - 1) :
        /\ proc_handled[n].failed = "agent"
        /\ ProcResults[n].error # <<>>
        /\ proc_handled[n + 1].failed = "none"
        /\ ProcResults[n + 1].records # <<>>
        /\ ProcResults[n + 1].record_id = proc_inbound[n + 1].record_id

\* C2: on a Processor stream the result for a record whose handling failed
\* (decoding, the agent's process, its Future, or marshalling an output
\* record) has a non-empty error and no output records.
C2_FailedResultHasErrorAndNoRecords ==
    \A n \in 1..Len(proc_handled) :
        proc_handled[n].failed # "none" =>
            /\ ProcResults[n].error # <<>>
            /\ ProcResults[n].error # <<"">>
            /\ ProcResults[n].records = <<>>

\* The id the registry holds for the schema of an AvroValue is the id its
\* wire value carries.
CarriesOwnId(value, grpc_value) ==
    value.kind = "avro" =>
        /\ grpc_value.variant = "avro_value"
        /\ to_parsing_canonical_form(value.schema) \in DOMAIN schemas
        /\ grpc_value.schema_id = schemas[to_parsing_canonical_form(value.schema)]
RecordCarriesOwnIds(record, grpc_record) ==
    /\ CarriesOwnId(record.value, grpc_record.value)
    /\ CarriesOwnId(record.key, grpc_record.key)
    /\ \A n \in 1..Len(record.headers) :
          CarriesOwnId(record.headers[n].value, grpc_record.headers[n].value)

\* The wire records a read stream has yielded, batch after batch.
RECURSIVE Flatten(_)
Flatten(batches) ==
    IF batches = <<>> THEN <<>> ELSE Head(batches).records \o Flatten(Tail(batches))
EmittedRecords(r) == Flatten(Yielded(r, "records"))

\* C7: every schema-typed wire value yielded (in a Processor result or a
\* Source batch) carries the id the registry assigned to its own schema
\* when that schema was first registered.
C7_WireValueCarriesOwnSchemaId ==
    /\ \A n \in 1..Len(proc_handled) :
          \A k \in 1..Len(ProcResults[n].records) :
              RecordCarriesOwnIds(proc_handled[n].outputs[k], ProcResults[n].records[k])
    /\ \A r \in ReadStreams :
          \A n \in 1..Len(EmittedRecords(r)) :
              RecordCarriesOwnIds(emit[r].emitted[n], EmittedRecords(r)[n])

\* How many announcements of a canonical schema string have been yielded,
\* on any stream, and how many a suspended marshalling loop still holds to
\* yield next.
Count(seq, value) == Cardinality({n \in 1..Len(seq) : seq[n].value = value})
Announced(schema_str) ==
    Cardinality({n \in 1..Len(wire) :
                    wire[n].type = "schema" /\ wire[n].schema.value = schema_str})
AboutToAnnounce(schema_str) ==
    Count(proc.pending, schema_str)
    + Count(emit["read1"].pending, schema_str) + Count(emit["read2"].pending, schema_str)

\* C8: every schema in the registry has been announced exactly once in
\* total (or is being announced by the loop that registered it).
C8_AnnouncedExactlyOnce ==
    \A schema_str \in DOMAIN schemas :
        Announced(schema_str) + AboutToAnnounce(schema_str) = 1

\* C9: every schema-typed value in a record batch or result on the wire
\* references a schema id whose announcement was yielded earlier.
C9_AnnouncedBeforeUse ==
    \A n \in 1..Len(wire) :
        wire[n].type \in {"records", "results"} =>
            \A k \in 1..Len(wire[n].records) :
                \A value \in GrpcValuesOf(wire[n].records[k]) :
                    value.variant = "avro_value" =>
                        \E a \in 1..(n - 1) :
                            /\ wire[a].type = "schema"
                            /\ wire[a].schema.schema_id = value.schema_id

\* C3: on every read stream the record ids yielded are 1, 2, 3, ... in
\* emission order, whatever the other read stream of the same instance has
\* yielded and however many empty batches agent.read returned.
C3_SourceIdsSequential ==
    \A r \in ReadStreams :
        /\ \A n \in 1..Len(EmittedRecords(r)) : EmittedRecords(r)[n].record_id = n
        /\ Len(EmittedRecords(r)) = last_record_id[r]

\* C3 witness: one stream yielded two batches, the second ending with id
\* 3, while the other stream yielded ids 1 and 2 after an empty batch.
C3_Witness ==
    \E r \in ReadStreams, q \in ReadStreams :
        /\ r # q
        /\ emit[r].empties > 0
        /\ Len(EmittedRecords(r)) = 2
        /\ Len(Yielded(q, "records")) = 2
        /\ Len(EmittedRecords(q)) = 3
        /\ EmittedRecords(q)[3].record_id = 3

\* The ids for which a hook was called with a record of the map.
CommittedIds(r) == {hooks[r].commit[n].record_id : n \in 1..Len(hooks[r].commit)}
FailedIds(r) ==
    {hooks[r].permanent_failure[n].record_id :
        n \in {m \in 1..Len(hooks[r].permanent_failure) :
                  hooks[r].permanent_failure[m].record # NoneRecord}}

\* C4: a commit of an id in the correlation map removes that entry and no
\* other and calls the commit hook once, with the record stored under the
\* id; a commit of an id not in the map (never issued, or resolved before)
\* removes nothing and calls no hook. So the commit hook is called at
\* most once per id, only for issued ids not failed before, with the record
\* emitted under the id, and the map holds exactly the issued ids not
\* resolved yet, each with its record.
C4_CommitRemovesExactlyItsEntry ==
    LET r == "read1"
        calls == hooks[r].commit
    IN  /\ \A n \in 1..Len(calls) :
              /\ calls[n].record_id \in 1..Len(emit[r].emitted)
              /\ calls[n].record = emit[r].emitted[calls[n].record_id]
              /\ \A m \in 1..Len(calls) : calls[m].record_id = calls[n].record_id => m = n
        /\ CommittedIds(r) \cap FailedIds(r) = {}
        /\ DOMAIN read_records[r] = (1..last_record_id[r]) \ (CommittedIds(r) \cup FailedIds(r))
        /\ \A id \in DOMAIN read_records[r] : read_records[r][id] = emit[r].emitted[id]

\* C4 witness: the request committing ids 3 and 2 was handled when ids 1
\* and 2 were issued: id 3 was a no-op, the hook was called for id 2 alone
\* and entry 1 is still in the map.
C4_Witness ==
    LET r == "read1"
    IN  /\ hooks[r].handled =
              <<[request |-> SourceRequest(<<3, 2>>, NoPermanentFailure), issued |-> 2]>>
        /\ last_record_id[r] = 2
        /\ hooks[r].commit = <<[record_id |-> 2, record |-> RA]>>
        /\ DOMAIN read_records[r] = {1}

\* C5: a permanent failure for an id that is not in the correlation map is
\* ignored: the permanent_failure hook is called only with a record that
\* was in the map.
C5_UnknownFailureIgnored ==
    \A r \in ReadStreams :
        \A n \in 1..Len(hooks[r].permanent_failure) :
            hooks[r].permanent_failure[n].record # NoneRecord

\* The two requests of the scenario of C6.
CommitOne == [request |-> SourceRequest(<<1>>, NoPermanentFailure), issued |-> 2]
FailTwo == [request |-> SourceRequest(<<>>, PermanentFailure(2, "rejected")), issued |-> 2]

\* The stream yielded one batch of two records, and the peer's two
\* requests, commit of id 1 and permanent failure of id 2, both sent after
\* the batch, are all it sent and have both been handled.
C6_Scenario(r) ==
    /\ Len(Yielded(r, "records")) = 1
    /\ Len(EmittedRecords(r)) = 2
    /\ last_record_id[r] = 2
    /\ hooks[r].handled \in {<<CommitOne, FailTwo>>, <<FailTwo, CommitOne>>}
    /\ ack[r].n = 2
    /\ ack[r].pc \in {"wait", "ended"}

\* C6: after a batch [A, B] with ids 1 and 2, a commit of id 1 and a
\* permanent failure of id 2, handled in either order, the correlation map
\* is empty, the commit hook was called once, with A, and the
\* permanent_failure hook once, with B.
C6_CommitAndFailureResolveBatch ==
    LET r == "read1"
    IN  C6_Scenario(r) =>
            /\ read_records[r] = EmptyMap
            /\ hooks[r].commit = <<[record_id |-> 1, record |-> emit[r].emitted[1]]>>
            /\ Len(hooks[r].permanent_failure) = 1
            /\ hooks[r].permanent_failure[1].record = emit[r].emitted[2]
            /\ hooks[r].permanent_failure[1].error = Exc("RuntimeError", "rejected")
            /\ emit[r].emitted = <<wrap_in_record(RTuple), RA>>

\* C6 witness: the scenario with the failure of id 2 handled first.
C6_Witness ==
    /\ C6_Scenario("read1")
    /\ hooks["read1"].handled = <<FailTwo, CommitOne>>
    /\ read_records["read1"] = EmptyMap

SinkResponses == Yielded(SinkStream, "sink")

\* The responses answer the inbound records one for one, in arrival order,
\* each echoing the record's id, and no failure of a record ends the
\* generator.
SinkAnswersEveryRecord ==
    /\ sink.pc = "aborted" => ParseRaises(sink.request.schema.value)
    /\ Len(SinkResponses) <= Len(sink_inbound)
    /\ \A n \in 1..Len(SinkResponses) : SinkResponses[n].record_id = sink_inbound[n].record_id
    /\ sink.pc \in {"wait", "done", "yield"} => Len(SinkResponses) = Len(sink_inbound)
    /\ sink.pc \in {"writing", "future"} => Len(SinkResponses) = Len(sink_inbound) - 1
    /\ Len(sink_handled) = Len(SinkResponses)

\* C10 as stated: every inbound record of a Sink stream gets one response
\* echoing its id, and the response has an error if and only if the
\* agent's write or the Future it returned failed.
C10_SinkErrorIffWriteFailed ==
    /\ SinkAnswersEveryRecord
    /\ \A n \in 1..Len(sink_handled) :
          SinkResponses[n].error # <<>> <=> sink_handled[n].failed \in {"agent", "future"}

\* C10 amended: every inbound record of a Sink stream gets one response
\* echoing its id, and the response has an error if and only if decoding
\* the record, the agent's write or the Future it returned failed; no such
\* failure ends the stream.
C10_SinkErrorIffHandlingFailed ==
    /\ SinkAnswersEveryRecord
    /\ \A n \in 1..Len(sink_handled) :
          SinkResponses[n].error # <<>> <=> sink_handled[n].failed # "none"

\* C10 witness: the write of record 7 raised and was answered with an
\* error; record 8 was then written and answered without one.
C10_Witness ==
    /\ Len(sink_handled) = 2
    /\ sink_handled[1] = [record_id |-> 7, failed |-> "agent"]
    /\ SinkResponses[1].record_id = 7
    /\ SinkResponses[1].error # <<>>
    /\ sink_handled[2] = [record_id |-> 8, failed |-> "none"]
    /\ SinkResponses[2] = SinkResponse(SinkStream, 8, <<>>)

\* The schema ids that the schema-typed values of a wire record reference
\* and that are not among the ids known.
UnannouncedIds(record, known) ==
    {value.schema_id : value \in {v \in GrpcValuesOf(record) : v.variant = "avro_value"}}
        \ known

\* The inbound record a stream is handling or has just answered.
ProcCurrent == proc.request.records[proc.i]
SinkCurrent == sink.request.record

\* C11: on a Processor or Sink stream, a record with a schema-typed value
\* whose schema id the inbound cache did not hold when the record was
\* decoded is never handed to the agent (the stream never waits for
\* process or write on it) and nothing is decoded from it; it is answered,
\* for its id, with an error and no output, the failing stage being the
\* decoding; and the generator is not ended by it.
C11_UnannouncedSchemaFailsRecordOnly ==
    /\ proc.pc \in {"processing", "future", "yield_schema", "yield_result"}
          /\ UnannouncedIds(ProcCurrent, proc.known) # {}
       => /\ proc.pc = "yield_result"
          /\ proc.arg = NoRecordWithId
          /\ proc_handled[Len(proc_handled)] =
                [record_id |-> ProcCurrent.record_id, failed |-> "decode", outputs |-> <<>>]
          /\ ProcResults[Len(ProcResults)].record_id = ProcCurrent.record_id
          /\ ProcResults[Len(ProcResults)].error \notin {<<>>, <<"">>}
          /\ ProcResults[Len(ProcResults)].records = <<>>
    /\ sink.pc \in {"writing", "future", "yield"}
          /\ UnannouncedIds(SinkCurrent, sink.known) # {}
       => /\ sink.pc = "yield"
          /\ sink_handled[Len(sink_handled)] =
                [record_id |-> SinkCurrent.record_id, failed |-> "decode"]
          /\ SinkResponses[Len(SinkResponses)].record_id = SinkCurrent.record_id
          /\ SinkResponses[Len(SinkResponses)].error \notin {<<>>, <<"">>}
    /\ proc.pc = "aborted" => ParseRaises(proc.request.schema.value)
    /\ sink.pc = "aborted" => ParseRaises(sink.request.schema.value)

\* C11 witness: on both streams a record referencing the unannounced id 1
\* was answered with an error, and the record after it was handed to the
\* agent and answered without one.
C11_Witness ==
    /\ Len(proc_handled) = 2
    /\ proc_handled[1].record_id = 9 /\ proc_handled[1].failed = "decode"
    /\ proc_handled[2].record_id = 7 /\ proc_handled[2].failed = "none"
    /\ ProcResults[2].error = <<>>
    /\ Len(sink_handled) = 2
    /\ sink_handled[1] = [record_id |-> 9, failed |-> "decode"]
    /\ sink_handled[2] = [record_id |-> 8, failed |-> "none"]
    /\ SinkResponses[2].error = <<>>
    /\ client_schemas = EmptyMap

\* The messages of a sequence of messages that one stream yielded.
SentBy(stream, messages) == SelectSeq(messages, LAMBDA m : m.stream = stream)

\* The ack loop has observed the end of the request stream.
CloseObserved(r) == Len(op_result[r]) > 0 /\ op_result[r][1].ok

\* C12: on a read stream, once the ack loop has observed the end of the
\* request stream, no step yields a further schema announcement or record
\* batch on that stream.
C12_NoEmissionAfterClose ==
    [][\A r \in ReadStreams : CloseObserved(r) => SentBy(r, wire') = SentBy(r, wire)]_vars

\* The ack loop has ended with the exception of a hook.
HookFailed(r) == Len(op_result[r]) > 0 /\ ~op_result[r][1].ok

\* The emit loop has not ended; it ended with the exception e; it ended
\* with the exception of the hook; it ended because agent.read raised.
EmitRunning(r) == emit[r].pc \notin {"done", "failed"}
EmitFailedWith(r, e) == emit[r].pc = "failed" /\ emit[r].error = e
EndedWithHookError(r) == HookFailed(r) /\ EmitFailedWith(r, op_result[r][1].error)
AgentReadRaised(r) == emit[r].pc = "failed" /\ Raises(emit[r].error) \in ReadOutcomes

\* C13 as stated: provided no agent.read call raises, a read stream whose
\* commit or permanent_failure hook raised eventually ends with that
\* exception, and one whose peer closed the request stream eventually ends
\* normally.
C13_HookErrorOrCloseEndsRead ==
    []~AgentReadRaised("read1") =>
        /\ (HookFailed("read1") /\ EmitRunning("read1"))
              ~> EndedWithHookError("read1")
        /\ (CloseObserved("read1") /\ EmitRunning("read1")) ~> (emit["read1"].pc = "done")

\* C14: once the main hook, run on its MainExecutor thread, has raised an
\* exception, the process has exited.
C14_MainFailureExitsProcess ==
    server.main = "raised" => server.exited

\* A step in which the Processor stream, or the Sink stream, decodes its
\* next inbound record.
ProcDecodes ==
    \/ proc.pc = "wait" /\ Len(proc_inbound') > Len(proc_inbound)
    \/ proc.pc = "yield_result" /\ proc'.pc # "wait" /\ proc' # proc
SinkDecodes == sink.pc = "wait" /\ Len(sink_inbound') > Len(sink_inbound)

\* The value of a record decoded is the AvroValue of the schema that the
\* cache holds under the id the wire value references.
DecodedWithCached(record, arg, cache) ==
    record.value.variant = "avro_value" =>
        /\ arg.record_id = record.record_id
        /\ arg.value.kind = "avro"
        /\ arg.value.schema = cache[record.value.schema_id]

\* C15: the inbound cache is shared by the Processor and the Sink stream
\* of an instance: it holds every id announced on either stream, and a
\* record decoded on one stream is decoded against every announcement
\* applied before on the other: if all the ids it references have been
\* announced on either stream, decoding does not fail and the agent is
\* handed the AvroValue of the schema cached under the id.
C15_InboundCacheShared ==
    [][/\ (proc'.announced \cup sink'.announced) \subseteq DOMAIN client_schemas'
       /\ ProcDecodes =>
             /\ (proc'.announced \cup sink.announced) \subseteq proc'.known
             /\ UnannouncedIds(ProcCurrent', proc'.announced \cup sink.announced) = {} =>
                   /\ proc'.pc = "processing"
                   /\ DecodedWithCached(ProcCurrent', proc'.arg, client_schemas')
       /\ SinkDecodes =>
             /\ (sink'.announced \cup proc.announced) \subseteq sink'.known
             /\ UnannouncedIds(SinkCurrent', sink'.announced \cup proc.announced) = {} =>
                   /\ sink'.pc = "writing"
                   /\ DecodedWithCached(SinkCurrent', sink'.arg, client_schemas')
      ]_vars

\* C15 witness: schema id 1 was announced on the Sink stream only, and the
\* Processor stream then decoded a record referencing id 1 and handed the
\* AvroValue to the agent.
C15_Witness ==
    /\ sink.announced = {1}
    /\ proc.announced = {}
    /\ proc.pc = "processing"
    /\ ProcCurrent = InAvro
    /\ proc.arg.value = AvroValue(ASchema, "a1")

\* C16: while an agent.read call of a read stream is outstanding, its ack
\* loop is not held up: it takes the next request, and the hook it awaits
\* can finish; and for a request that arrived while the read was
\* outstanding and commits an id in the correlation map, the entry is
\* gone and the commit hook has been called with its record while the
\* read is still outstanding.
C16_AckLoopRunsDuringRead ==
    LET r == "read1"
    IN  emit[r].pc = "reading" =>
            /\ ack[r].pc = "wait" /\ ack[r].n < MaxAcks =>
                  \A request \in SourceRequests : ENABLED AckReceive(r, request)
            /\ ack[r].pc = "commit_hook" => ENABLED AckCommitReturns(r, Returns(<<>>))
            /\ ack[r].pc = "failure_hook" => ENABLED AckFailureReturns(r, Returns(<<>>))
            /\ ack[r].during_read /\ ack[r].pc = "commit_hook" =>
                  LET call == hooks[r].commit[Len(hooks[r].commit)]
                  IN  /\ call.record_id = ack[r].request.committed_records[ack[r].k]
                      /\ call.record_id \notin DOMAIN read_records[r]
                      /\ call.record = emit[r].emitted[call.record_id]

\* C16 witness: ids 1 and 2 were emitted and a second agent.read is
\* outstanding; the commit of id 1 arrived meanwhile, entry 1 is gone and
\* the commit hook is running with record 1.
C16_Witness ==
    LET r == "read1"
    IN  /\ emit[r].pc = "reading"
        /\ emit[r].reads = 2
        /\ ack[r].during_read
        /\ ack[r].pc = "commit_hook"
        /\ hooks[r].commit = <<[record_id |-> 1, record |-> emit[r].emitted[1]]>>
        /\ DOMAIN read_records[r] = {2}

\* Two domain values are equal: the same kind and content, the schemas of
\* AvroValues compared by canonical form.
SameDomValue(a, b) ==
    /\ a.kind = b.kind
    /\ a.payload = b.payload
    /\ to_parsing_canonical_form(a.schema) = to_parsing_canonical_form(b.schema)

\* The schema of a value is in the registry and in the cache under the
\* same id (other values need no schema).
SchemaOnBothSides(value, cache) ==
    value.kind = "avro" =>
        LET schema_str == to_parsing_canonical_form(value.schema)
        IN  /\ schema_str \in DOMAIN schemas
            /\ schemas[schema_str] \in DOMAIN cache
            /\ to_parsing_canonical_form(cache[schemas[schema_str]]) = schema_str

\* C17: decoding the encoding of a supported domain value (for an
\* AvroValue, its schema being in the registry and in the cache under the
\* same id) yields an equal domain value, and encoding the decoding of a
\* wire value yields the same variant and payload.
C17_CodecRoundTrip ==
    /\ codec.op = "encode" /\ SchemaOnBothSides(codec.dom, codec.cache) =>
          /\ ~codec.raised
          /\ ~codec.back_raised
          /\ SameDomValue(codec.back_dom, codec.dom)
    /\ codec.op = "decode" /\ ~codec.raised =>
          /\ ~codec.back_raised
          /\ codec.back_grpc.variant = codec.grpc.variant
          /\ codec.back_grpc.payload = codec.grpc.payload

\* The ids of the registry are 1..n, n the number of schemas registered,
\* no two schemas share one, and schema_id is the id assigned last.
RegistryWellFormed(reg_id, reg) ==
    /\ reg_id = Cardinality(DOMAIN reg)
    /\ {reg[s] : s \in DOMAIN reg} = 1..Cardinality(DOMAIN reg)
    /\ \A s \in DOMAIN reg : \A t \in DOMAIN reg : reg[s] = reg[t] => s = t

\* C18: under any interleaving of streams that encode records, every
\* step leaves the outbound registry well formed (ids 1..n, injective) and
\* keeps every entry it held, under the same id.
C18_RegistryAppendOnlyInjective ==
    [][/\ RegistryWellFormed(schema_id', schemas')
       /\ \A s \in DOMAIN schemas : s \in DOMAIN schemas' /\ schemas'[s] = schemas[s]
      ]_vars

\* C18 witness: two schemas are registered, and each of the two read
\* streams has registered and announced one of them.
C18_Witness ==
    /\ Cardinality(DOMAIN schemas) = 2
    /\ Len(Yielded("read1", "schema")) = 1
    /\ Len(Yielded("read2", "schema")) = 1
    /\ Yielded("read1", "schema")[1].schema.schema_id
           # Yielded("read2", "schema")[1].schema.schema_id

\* The ids the peer has committed or failed that were in the correlation
\* map: those a hook was called for with the record.
ResolvedIds(r) == CommittedIds(r) \cup FailedIds(r)

\* The hook calls made with a record.
CallsWithRecord(r) ==
    hooks[r].commit \o SelectSeq(hooks[r].permanent_failure, LAMBDA c : c.record # NoneRecord)

\* C19: on a read stream the keys of the correlation map are the ids
\* assigned so far less the ids resolved; the ids assigned are those of the
\* records yielded, so every id the peer has received is in the map or
\* resolved; a request handled commits or fails no id issued before it
\* arrived without that id being resolved; and no id, hence no record, is
\* passed to a hook twice.
C19_MapHoldsUnresolvedIds ==
    LET r == "read1"
        calls == CallsWithRecord(r)
    IN  /\ DOMAIN read_records[r] = (1..last_record_id[r]) \ ResolvedIds(r)
        /\ Len(EmittedRecords(r)) = last_record_id[r]
        /\ \A n \in 1..Len(EmittedRecords(r)) :
              EmittedRecords(r)[n].record_id \in DOMAIN read_records[r] \cup ResolvedIds(r)
        /\ \A n \in 1..Len(hooks[r].handled) :
              LET h == hooks[r].handled[n]
              IN  /\ \A k \in 1..Len(h.request.committed_records) :
                        h.request.committed_records[k] <= h.issued =>
                            h.request.committed_records[k] \in ResolvedIds(r)
                  /\ h.request.permanent_failure.set
                        /\ h.request.permanent_failure.record_id <= h.issued =>
                            h.request.permanent_failure.record_id \in ResolvedIds(r)
        /\ \A n \in 1..Len(calls) : \A m \in 1..Len(calls) :
              calls[n].record_id = calls[m].record_id => n = m

\* C19 witness: three ids were issued in two batches; the request
\* committing ids 3 and 2 found both entries, and entry 1 is what the map
\* still holds.
C19_Witness ==
    LET r == "read1"
    IN  /\ Len(Yielded(r, "records")) = 2
        /\ last_record_id[r] = 3
        /\ hooks[r].handled =
              <<[request |-> SourceRequest(<<3, 2>>, NoPermanentFailure), issued |-> 3]>>
        /\ CommittedIds(r) = {2, 3}
        /\ DOMAIN read_records[r] = {1}

\* C20: on a Processor stream, while the agent's process runs for a record
\* (or its outputs are being marshalled), the results of all the records
\* that arrived before it, and of no other, have been yielded, and the
\* record is the next in arrival order; the results yielded follow the
\* arrival order; and the announcement carried by a request is in the
\* cache when a record of that request is decoded, so a record
\* referencing only the id announced with it does not fail to decode.
C20_ProcessorOneAtATimeInOrder ==
    /\ proc.pc \in {"processing", "future", "yield_schema"} =>
          /\ Len(ProcResults) < Len(proc_inbound)
          /\ proc_inbound[Len(ProcResults) + 1] = ProcCurrent
          /\ proc.arg.record_id = ProcCurrent.record_id
          /\ Len(proc_inbound) - Len(ProcResults) = Len(proc.request.records) - proc.i + 1
    /\ proc.pc = "yield_result" =>
          /\ Len(ProcResults) <= Len(proc_inbound)
          /\ proc_inbound[Len(ProcResults)] = ProcCurrent
    /\ \A n \in 1..Len(ProcResults) : ProcResults[n].record_id = proc_inbound[n].record_id
    /\ proc.pc \in {"processing", "future", "yield_schema", "yield_result"}
          /\ proc.request.schema # NoSchema =>
              /\ proc.request.schema.schema_id \in proc.known
              /\ UnannouncedIds(ProcCurrent, {proc.request.schema.schema_id}) = {}
                    /\ proc.pc = "yield_result" =>
                        proc_handled[Len(proc_handled)].failed # "decode"

\* C20 witness: record 7 was answered, then a request announcing schema
\* id 1 and carrying a record that references it arrived, and that record
\* was decoded and handed to the agent.
C20_Witness ==
    /\ Len(ProcResults) = 1
    /\ ProcResults[1].record_id = 7
    /\ proc.request = ProcessorRequest(Schema(1, ASchema), <<InAvro>>)
    /\ proc.pc = "processing"
    /\ proc.arg.value = AvroValue(ASchema, "a1")
    /\ proc.known = {1}

====
